---- MODULE Spec2Model ----
(***************************************************************************)
(* A model of the web-scraping helpers of src/myapp1.py: WebScraper        *)
(* (get_page, scrape_basic_data, scrape_table, scrape_links),              *)
(* AdvancedScraper (the Selenium driver's lifecycle) and ScrapingPipeline  *)
(* (scrape_multiple_pages, save_to_csv, save_to_json), and of the          *)
(* GroceryShop of src/myapp.py (add_product, update_stock, process_sale).  *)
(*                                                                         *)
(* The program is single-threaded; each component is checked under its own *)
(* specification (SpecFetch, SpecExtract, SpecTable, SpecLinks,            *)
(* SpecBrowser, SpecPipeline, SpecSave for the pipeline with its           *)
(* serializers, SpecRecord for the pipeline over scrape_basic_data,        *)
(* SpecJson for save_to_json, SpecShop) over one set of variables, the     *)
(* other components resting in their initial state.                        *)
(***************************************************************************)
EXTENDS Integers, Sequences, FiniteSets, TLC

VARIABLES
    \* WebScraper.get_page: one call in progress
    fpc,         \* "idle" | "loop" | "returned" | "raised"
    retries,     \* the retries argument
    attempt,     \* the loop variable of `for attempt in range(retries)`
    events,      \* what the call has done so far: sleeps and requests, in order
    response,    \* what the call returned
    \* WebScraper.scrape_basic_data: one call
    epc,         \* "idle" | "done"
    soup,        \* the parsed page: its elements in document order
    selectors,   \* the selectors argument: field name -> selector
    efetched,    \* whether get_page returned a response in the call
    data,        \* what the call returned
    \* WebScraper.scrape_table: one call
    tpc,         \* "idle" | "done"
    tsoup,       \* the parsed page: its tables in document order
    table_selector, \* the table_selector argument
    tfetched,    \* whether get_page returned a response in the call
    df,          \* what the call returned
    \* WebScraper.scrape_links: one call
    lpc,         \* "idle" | "done"
    lsoup,       \* the parsed page: its anchors in document order
    link_selector, \* the link_selector argument
    base_url,    \* the base_url argument
    lfetched,    \* whether get_page returned a response in the call
    links,       \* what the call returned
    \* AdvancedScraper: the scraper instances and the browsers they launched
    driver,      \* instance -> self.driver: 0 for None, else a browser
    browsers,    \* the browsers launched so far, each with its history
    dynamic,     \* what the last scrape_dynamic_content call did
    \* ScrapingPipeline: one instance, and one scrape_multiple_pages call
    ppc,         \* "idle" | "loop" | "returned"
    urls,        \* the urls argument of the call
    index,       \* the number of URLs the loop has visited
    results,     \* the local list `results` of the call
    self_results, \* self.results
    returned,    \* the list the last call returned
    heap,        \* the dict objects: address -> contents
    cached,      \* the dict object the extractor function keeps, 0 for none
    calls,       \* the extractor calls of the running call, with their outcomes
    clock,       \* datetime.now()
    files,       \* the output directory: filename -> contents
    printed,     \* the last line printed by save_to_csv / save_to_json
    \* GroceryShop: one instance
    products,    \* self.products: product id -> product
    sales_history, \* self.sales_history
    data_file,   \* what save_data last wrote to grocery_data.json
    shop_result, \* how the last call on the shop ended
    accepted     \* the lines the last process_sale call accepted, each with
                 \* the stock its product had when the loop reached it

fetchVars == <<fpc, retries, attempt, events, response>>

extractVars == <<epc, soup, selectors, efetched, data>>

tableVars == <<tpc, tsoup, table_selector, tfetched, df>>

linkVars == <<lpc, lsoup, link_selector, base_url, lfetched, links>>

browserVars == <<driver, browsers, dynamic>>

pipelineVars == <<ppc, urls, index, results, self_results, returned, heap, cached,
                  calls, clock, files, printed>>

shopVars == <<products, sales_history, data_file, shop_result, accepted>>

vars == <<fetchVars, extractVars, tableVars, linkVars, browserVars, pipelineVars,
          shopVars>>

notFetchVars ==
    <<extractVars, tableVars, linkVars, browserVars, pipelineVars, shopVars>>

notExtractVars ==
    <<fetchVars, tableVars, linkVars, browserVars, pipelineVars, shopVars>>

notTableVars ==
    <<fetchVars, extractVars, linkVars, browserVars, pipelineVars, shopVars>>

notLinkVars ==
    <<fetchVars, extractVars, tableVars, browserVars, pipelineVars, shopVars>>

notBrowserVars ==
    <<fetchVars, extractVars, tableVars, linkVars, pipelineVars, shopVars>>

notShopVars ==
    <<fetchVars, extractVars, tableVars, linkVars, browserVars, pipelineVars>>

notPipelineVars ==
    <<fetchVars, extractVars, tableVars, linkVars, browserVars, shopVars>>

(***************************************************************************)
(* Bounds                                                                  *)
(***************************************************************************)
MaxRetries == 3

\* The longest page of scrape_basic_data, in elements.
MaxElems == 3

\* The most rows of a table.
MaxRows == 3

\* The AdvancedScraper instances.
NumScrapers == 3

\* The longest page of scrape_links, in anchors.
MaxAnchors == 2

\* The largest stock of a product, the longest item list of a sale, and
\* the most sales of a shop.
MaxStock == 2

MaxItems == 2

MaxSales == 1

\* The longest urls argument, and the latest time of the clock.
MaxUrls == 3

\* The longest urls argument where the serializers run too.
MaxSaveUrls == 2

MaxClock == 2

(***************************************************************************)
(* WebScraper.get_page (src/myapp1.py 121-136)                             *)
(***************************************************************************)

\* The outcome of session.get(url, timeout=10): a requests.RequestException
\* raised by the transport (no response), or a response with an HTTP status.
TransportError == 0

Statuses == {101, 200, 204, 304, 404, 503}

Outcomes == {TransportError} \cup Statuses

\* The values the caller passes as retries (default 3); range(retries) is
\* empty for 0 and for negative values.
RetriesValues == (0 - 1) .. MaxRetries

\* response.raise_for_status(): requests raises HTTPError (a
\* RequestException) for 4xx and 5xx statuses and for no other status.
RaiseForStatusOnlyServerErrors(status) == 500 <= status /\ status < 600

RaiseForStatus(status) ==
    (400 <= status /\ status < 500) \/ (500 <= status /\ status < 600)

\* Whether the body of the try block raises requests.RequestException.
AttemptRaises(outcome) ==
    outcome = TransportError \/ RaiseForStatus(outcome)

\* 2 ** attempt
RECURSIVE Pow2(_)
Pow2(n) == IF n <= 0 THEN 1 ELSE 2 * Pow2(n - 1)

Backoff(a) == Pow2(a)

NoResponse == [kind |-> "None", status |-> 0]

Response(s) == [kind |-> "Response", status |-> s]

Delay == [kind |-> "delay", n |-> 0]

Request(outcome) == [kind |-> "request", n |-> outcome]

BackoffSleep(secs) == [kind |-> "backoff", n |-> secs]

\* The call get_page(url, retries=r) starts.
GetPage(r) ==
    /\ fpc = "idle"
    /\ fpc' = "loop"
    /\ retries' = r
    /\ attempt' = 0
    /\ events' = <<>>
    /\ response' = NoResponse
    /\ UNCHANGED notFetchVars

\* Whether the except clause re-raises: `if attempt == retries - 1: raise`.
IsFinalAttemptOffByOne(a, r) == a = r

IsFinalAttempt(a, r) == a = r - 1

\* One iteration of the loop whose request succeeds: the politeness sleep,
\* the request, raise_for_status passing, `return response`.
AttemptReturns(outcome) ==
    /\ fpc = "loop"
    /\ attempt < retries
    /\ ~AttemptRaises(outcome)
    /\ events' = events \o <<Delay, Request(outcome)>>
    /\ response' = Response(outcome)
    /\ fpc' = "returned"
    /\ UNCHANGED <<retries, attempt>>
    /\ UNCHANGED notFetchVars

\* One iteration whose try block raises RequestException on a non-final
\* attempt: the backoff sleep, then the next iteration.
AttemptRetries(outcome) ==
    /\ fpc = "loop"
    /\ attempt < retries
    /\ AttemptRaises(outcome)
    /\ ~IsFinalAttempt(attempt, retries)
    /\ events' = events \o <<Delay, Request(outcome), BackoffSleep(Backoff(attempt))>>
    /\ attempt' = attempt + 1
    /\ UNCHANGED <<fpc, retries, response>>
    /\ UNCHANGED notFetchVars

\* One iteration whose try block raises on the final attempt: `raise`.
AttemptPropagates(outcome) ==
    /\ fpc = "loop"
    /\ attempt < retries
    /\ AttemptRaises(outcome)
    /\ IsFinalAttempt(attempt, retries)
    /\ events' = events \o <<Delay, Request(outcome)>>
    /\ fpc' = "raised"
    /\ UNCHANGED <<retries, attempt, response>>
    /\ UNCHANGED notFetchVars

\* range(retries) is exhausted: the function falls off its end and returns
\* None.
LoopExhausted ==
    /\ fpc = "loop"
    /\ attempt >= retries
    /\ fpc' = "returned"
    /\ response' = NoResponse
    /\ UNCHANGED <<retries, attempt, events>>
    /\ UNCHANGED notFetchVars

\* The caller has the result (or the exception); the scraper is ready for
\* the next call.
FetchDone ==
    /\ fpc \in {"returned", "raised"}
    /\ fpc' = "idle"
    /\ retries' = 0
    /\ attempt' = 0
    /\ events' = <<>>
    /\ response' = NoResponse
    /\ UNCHANGED notFetchVars

FetchIdle ==
    /\ fpc = "idle"
    /\ retries = 0
    /\ attempt = 0
    /\ events = <<>>
    /\ response = NoResponse

(***************************************************************************)
(* Text: element.get_text(strip=True)                                      *)
(***************************************************************************)

\* A string is a sequence of characters; a text node of the page is a string.
Whitespace == {" "}

\* str.strip(): the string without its leading and trailing whitespace.
RECURSIVE LStrip(_)
LStrip(s) ==
    IF s # <<>> /\ Head(s) \in Whitespace THEN LStrip(Tail(s)) ELSE s

RECURSIVE RStrip(_)
RStrip(s) ==
    IF s # <<>> /\ s[Len(s)] \in Whitespace
    THEN RStrip(SubSeq(s, 1, Len(s) - 1))
    ELSE s

Strip(s) == RStrip(LStrip(s))

\* get_text(strip=True) joins, with the empty separator, the element's text
\* nodes in document order, each stripped, the empty ones left out.
RECURSIVE GetText(_)
GetText(nodes) ==
    IF nodes = <<>> THEN <<>> ELSE Strip(Head(nodes)) \o GetText(Tail(nodes))

(***************************************************************************)
(* WebScraper.scrape_basic_data (src/myapp1.py 138-162)                    *)
(***************************************************************************)

\* The text nodes of the elements of the pages.
ElementTexts ==
    { << <<" ", "a", " ">> >>,
      << <<"b">> >>,
      << <<"a", " ">>, <<" ", "b">> >>,
      << <<" ">> >> }

\* An element: the one selector that matches it, and its text nodes.
Elements == [sel : {".h", ".s"}, nodes : ElementTexts]

\* The selectors a request may name; ".x" matches no element of any page.
Selectors == {".h", ".s", ".x"}

Fields == {"title", "body"}

\* The selector maps: every mapping of some of the fields to selectors.
SelectorMaps == UNION {[fs -> Selectors] : fs \in SUBSET Fields}

RECURSIVE SeqsUpTo(_, _)
SeqsUpTo(S, n) ==
    IF n = 0 THEN {<<>>}
    ELSE LET shorter == SeqsUpTo(S, n - 1)
         IN  shorter \cup {Append(q, x) : q \in shorter, x \in S}

Pages == SeqsUpTo(Elements, MaxElems)

\* soup.select(selector): the matching elements, in document order.
Select(page, selector) == SelectSeq(page, LAMBDA el : el.sel = selector)

\* The three shapes of a field's value.
NoneValue == [kind |-> "None", str |-> <<>>, list |-> <<>>]

StrValue(s) == [kind |-> "str", str |-> s, list |-> <<>>]

ListValue(l) == [kind |-> "list", str |-> <<>>, list |-> l]

\* The body of the loop over selectors.items(): the value of one field.
FieldValueFirstOnly(elements) ==
    IF elements # <<>>
    THEN StrValue(GetText(elements[1].nodes))
    ELSE NoneValue

FieldValue(elements) ==
    IF elements # <<>>
    THEN IF Len(elements) = 1
         THEN StrValue(GetText(elements[1].nodes))
         ELSE ListValue([i \in 1 .. Len(elements) |-> GetText(elements[i].nodes)])
    ELSE NoneValue

\* What scrape_basic_data returns: None, or the dict `data`.
NoData == [kind |-> "None", dict |-> <<>>]

Dict(d) == [kind |-> "dict", dict |-> d]

\* scrape_basic_data(url, selectors): get_page either raises (after its
\* three attempts), which the except clause turns into None, or returns the
\* response whose content is parsed into soup.
ScrapeBasicData(sels, fetched) ==
    /\ epc = "idle"
    /\ epc' = "done"
    /\ selectors' = sels
    /\ efetched' = fetched
    /\ data' = IF fetched
               THEN Dict([f \in DOMAIN sels |-> FieldValue(Select(soup, sels[f]))])
               ELSE NoData
    /\ UNCHANGED soup
    /\ UNCHANGED notExtractVars

\* The caller has the result.
ExtractDone ==
    /\ epc = "done"
    /\ epc' = "idle"
    /\ selectors' = <<>>
    /\ efetched' = FALSE
    /\ data' = NoData
    /\ UNCHANGED soup
    /\ UNCHANGED notExtractVars

ExtractIdle ==
    /\ epc = "idle"
    /\ soup = <<>>
    /\ selectors = <<>>
    /\ efetched = FALSE
    /\ data = NoData

(***************************************************************************)
(* WebScraper.scrape_table (src/myapp1.py 164-198)                         *)
(***************************************************************************)

\* The text nodes of a cell.
CellTexts == { << <<" ", "a">> >>, << <<"b">> >> }

\* A row (a tr element): its th and td cells in document order, two at
\* most.
Rows == SeqsUpTo(CellTexts, 2)

\* A table: the one selector that matches it, and its tr elements.
Tables == [sel : {"table", "div"}, rows : SeqsUpTo(Rows, MaxRows)]

\* The tables that follow the first one on the pages with two tables.
SecondTables ==
    { [sel |-> "table", rows |-> << << <<<<"b">>>> >>, << <<<<"b">>>> >> >>],
      [sel |-> "table", rows |-> <<>>] }

TablePages ==
    {<<>>} \cup {<<t>> : t \in Tables}
           \cup {<<t, u>> : t \in Tables, u \in SecondTables}

\* soup.select_one(table_selector): the first matching table, or None
\* (the empty sequence here).
SelectOne(page, selector) ==
    LET found == SelectSeq(page, LAMBDA t : t.sel = selector)
    IN  IF found = <<>> THEN <<>> ELSE <<found[1]>>

\* [c.get_text(strip=True) for c in row.find_all(['th', 'td'])]
RowTexts(row) == [i \in 1 .. Len(row) |-> GetText(row[i])]

\* The value pandas puts where a row is shorter than the widest row.
Missing == <<"None">>

Max(S) == CHOOSE x \in S : \A y \in S : y <= x

Pad(row, width) ==
    [i \in 1 .. width |-> IF i <= Len(row) THEN row[i] ELSE Missing]

NoFrame == [kind |-> "None", columns |-> <<>>, rows |-> <<>>]

\* pd.DataFrame(rows, columns=headers) for a non-empty list of lists: the
\* rows are padded to the width of the widest one; a width other than
\* len(headers) raises ValueError ("N columns passed, passed data had M
\* columns"), which the except clause of scrape_table turns into None.
DataFrame(rows, headers) ==
    LET width == Max({Len(rows[i]) : i \in 1 .. Len(rows)})
    IN  IF width = Len(headers)
        THEN [kind |-> "DataFrame", columns |-> headers,
              rows |-> [i \in 1 .. Len(rows) |-> Pad(rows[i], width)]]
        ELSE NoFrame

\* The body of the try block, once the table is found.
TableFrame(table) ==
    LET trs     == table.rows
        headers == IF trs # <<>> THEN RowTexts(trs[1]) ELSE <<>>
        later   == IF trs # <<>> THEN Tail(trs) ELSE <<>>
        rows    == SelectSeq([i \in 1 .. Len(later) |-> RowTexts(later[i])],
                             LAMBDA r : r # <<>>)
    IN  IF headers # <<>> /\ rows # <<>>
        THEN DataFrame(rows, headers)
        ELSE NoFrame

\* scrape_table(url, table_selector): get_page raises (None is returned) or
\* its response is parsed into tsoup.
ScrapeTable(selector, fetched) ==
    /\ tpc = "idle"
    /\ tpc' = "done"
    /\ table_selector' = selector
    /\ tfetched' = fetched
    /\ df' = IF fetched
             THEN LET table == SelectOne(tsoup, selector)
                  IN  IF table = <<>> THEN NoFrame ELSE TableFrame(table[1])
             ELSE NoFrame
    /\ UNCHANGED tsoup
    /\ UNCHANGED notTableVars

TableDone ==
    /\ tpc = "done"
    /\ tpc' = "idle"
    /\ table_selector' = ""
    /\ tfetched' = FALSE
    /\ df' = NoFrame
    /\ UNCHANGED tsoup
    /\ UNCHANGED notTableVars

TableIdle ==
    /\ tpc = "idle"
    /\ tsoup = <<>>
    /\ table_selector = ""
    /\ tfetched = FALSE
    /\ df = NoFrame

(***************************************************************************)
(* WebScraper.scrape_links (src/myapp1.py 200-224)                         *)
(***************************************************************************)

\* A URL is a string, kept here as the sequence of its pieces: a scheme
\* with its colon, the separator "/", and the names between separators.
Schemes == {"https:"}

\* The href attributes of the anchors: empty, relative to the directory,
\* relative to the root, with a parent segment, and absolute.
Hrefs ==
    { <<>>,
      <<"page.html">>,
      <<"/", "top">>,
      <<"..", "/", "up">>,
      <<"https:", "/", "/", "y.org", "/", "q">> }

\* The attributes of an anchor: it may lack href, and may lack title.
AnchorAttrs ==
    { <<>>, [title |-> <<"t">>] }
    \cup { [href |-> h] : h \in Hrefs }
    \cup { [href |-> h, title |-> <<"t">>] : h \in Hrefs }

\* An anchor: the one selector that matches it, its attributes and its
\* text nodes.
Anchors == [sel : {"a", ".nav"}, attrs : AnchorAttrs, nodes : {<< <<" ", "x", " ">> >>}]

LinkPages == SeqsUpTo(Anchors, MaxAnchors)

\* The base_url argument: None (the default), the empty string, or a URL.
BaseUrls ==
    { NoneValue,
      StrValue(<<>>),
      StrValue(<<"https:", "/", "/", "x.com", "/", "dir", "/">>),
      StrValue(<<"https:", "/", "/", "x.com", "/", "dir", "/", "f">>),
      StrValue(<<"https:", "/", "/", "x.com">>) }

\* link.get(name): the attribute, or None.
GetAttr(attrs, name) ==
    IF name \in DOMAIN attrs THEN StrValue(attrs[name]) ELSE NoneValue

\* link.get(name, default)
GetAttrOr(attrs, name, default) ==
    IF name \in DOMAIN attrs THEN attrs[name] ELSE default

\* `if href:` is true for a string that is not empty.
HasHref(href) == href.kind = "str" /\ href.str # <<>>

\* The pieces of s before its first "/".
RECURSIVE UpToSlash(_)
UpToSlash(s) ==
    IF s = <<>> \/ Head(s) = "/" THEN <<>> ELSE <<Head(s)>> \o UpToSlash(Tail(s))

\* str.split('/')
RECURSIVE Split(_)
Split(s) ==
    LET first == UpToSlash(s)
    IN  IF Len(first) = Len(s)
        THEN <<first>>
        ELSE <<first>> \o Split(SubSeq(s, Len(first) + 2, Len(s)))

\* '/'.join(segments)
RECURSIVE Join(_)
Join(segments) ==
    IF segments = <<>> THEN <<>>
    ELSE IF Len(segments) = 1 THEN segments[1]
    ELSE segments[1] \o <<"/">> \o Join(Tail(segments))

\* urllib.parse.urlparse(url): the scheme, the network location and the
\* path of a URL (no URL of the model has a query or a fragment).
UrlParse(u) ==
    LET scheme == IF u # <<>> /\ Head(u) \in Schemes THEN <<Head(u)>> ELSE <<>>
        rest   == IF scheme # <<>> THEN Tail(u) ELSE u
        slashes == Len(rest) >= 2 /\ rest[1] = "/" /\ rest[2] = "/"
        netloc == IF slashes THEN UpToSlash(SubSeq(rest, 3, Len(rest))) ELSE <<>>
        path   == IF slashes THEN SubSeq(rest, 3 + Len(netloc), Len(rest)) ELSE rest
    IN  [scheme |-> scheme, netloc |-> netloc, path |-> path]

\* urllib.parse.urlunparse((scheme, netloc, path, '', '', ''))
UrlUnparse(scheme, netloc, path) ==
    LET hier == IF netloc # <<>>
                THEN <<"/", "/">> \o netloc
                     \o (IF path # <<>> /\ Head(path) # "/" THEN <<"/">> ELSE <<>>)
                     \o path
                ELSE path
    IN  scheme \o hier

\* segments[1:-1] = filter(None, segments[1:-1])
FilterMiddle(segments) ==
    IF Len(segments) <= 2 THEN segments
    ELSE <<segments[1]>>
         \o SelectSeq(SubSeq(segments, 2, Len(segments) - 1), LAMBDA x : x # <<>>)
         \o <<segments[Len(segments)]>>

\* The loop of urljoin over the segments: ".." removes the segment before
\* it, if there is one, "." is dropped.
RECURSIVE RemoveDots(_, _)
RemoveDots(segments, resolved) ==
    IF segments = <<>> THEN resolved
    ELSE LET seg == Head(segments)
         IN  IF seg = <<"..">>
             THEN RemoveDots(Tail(segments),
                             IF resolved = <<>> THEN resolved
                             ELSE SubSeq(resolved, 1, Len(resolved) - 1))
             ELSE IF seg = <<".">>
             THEN RemoveDots(Tail(segments), resolved)
             ELSE RemoveDots(Tail(segments), Append(resolved, seg))

\* urllib.parse.urljoin(base, url) for a URL without query and fragment.
UrljoinConcat(base, url) == base \o url

Urljoin(base, url) ==
    IF base = <<>> THEN url
    ELSE IF url = <<>> THEN base
    ELSE LET b == UrlParse(base)
             u == UrlParse(url)
             scheme == IF u.scheme = <<>> THEN b.scheme ELSE u.scheme
         IN  IF scheme # b.scheme THEN url
             ELSE IF u.netloc # <<>> THEN UrlUnparse(scheme, u.netloc, u.path)
             ELSE IF u.path = <<>> THEN UrlUnparse(scheme, b.netloc, b.path)
             ELSE LET parts == Split(b.path)
                      base_parts == IF parts[Len(parts)] # <<>>
                                    THEN SubSeq(parts, 1, Len(parts) - 1)
                                    ELSE parts
                      segments == IF Head(u.path) = "/"
                                  THEN Split(u.path)
                                  ELSE FilterMiddle(base_parts \o Split(u.path))
                      last == segments[Len(segments)]
                      resolved == RemoveDots(segments, <<>>)
                                  \o (IF last \in {<<".">>, <<"..">>}
                                      THEN << <<>> >> ELSE <<>>)
                      joined == Join(resolved)
                  IN  UrlUnparse(scheme, b.netloc,
                                 IF joined = <<>> THEN <<"/">> ELSE joined)

\* The dict appended for one anchor with an href; `if base_url:` is false
\* for None and for the empty string.
LinkRecord(link, base) ==
    LET href == link.attrs["href"]
    IN  [url   |-> IF base.kind = "str" /\ base.str # <<>>
                   THEN Urljoin(base.str, href)
                   ELSE href,
         text  |-> GetText(link.nodes),
         title |-> GetAttrOr(link.attrs, "title", <<>>)]

\* The loop over soup.select(link_selector).
RECURSIVE LinkRecords(_, _)
LinkRecords(anchors, base) ==
    IF anchors = <<>> THEN <<>>
    ELSE IF HasHref(GetAttr(Head(anchors).attrs, "href"))
         THEN <<LinkRecord(Head(anchors), base)>> \o LinkRecords(Tail(anchors), base)
         ELSE LinkRecords(Tail(anchors), base)

\* scrape_links(url, link_selector, base_url): get_page raises (the except
\* clause returns the empty list) or its response is parsed into lsoup.
ScrapeLinks(selector, base, fetched) ==
    /\ lpc = "idle"
    /\ lpc' = "done"
    /\ link_selector' = selector
    /\ base_url' = base
    /\ lfetched' = fetched
    /\ links' = IF fetched
                THEN LinkRecords(Select(lsoup, selector), base)
                ELSE <<>>
    /\ UNCHANGED lsoup
    /\ UNCHANGED notLinkVars

\* The caller has the result.
LinksDone ==
    /\ lpc = "done"
    /\ lpc' = "idle"
    /\ link_selector' = ""
    /\ base_url' = NoneValue
    /\ lfetched' = FALSE
    /\ links' = <<>>
    /\ UNCHANGED lsoup
    /\ UNCHANGED notLinkVars

LinksIdle ==
    /\ lpc = "idle"
    /\ lsoup = <<>>
    /\ link_selector = ""
    /\ base_url = NoneValue
    /\ lfetched = FALSE
    /\ links = <<>>

(***************************************************************************)
(* AdvancedScraper (src/myapp1.py 227-282)                                 *)
(***************************************************************************)

\* The AdvancedScraper instances of the program.
Scrapers == 1 .. NumScrapers

\* self.driver = None
NoDriver == 0

\* What the last call on a scraper did: the method, the scraper, the
\* browser it acted on (0 for none), whether the call launched that browser,
\* whether that browser had been quit before the call, and the outcome
\* ("data", "None", "raised" for an exception leaving the method, "" for
\* close).
NoCall ==
    [op |-> "", scraper |-> 0, browser |-> 0, launched |-> FALSE,
     wasQuit |-> FALSE, result |-> ""]

\* setup_driver(): webdriver.Chrome(options=...) launches a browser and
\* self.driver holds it. A browser is named by its position in `browsers`.
SetupDriver(s) ==
    /\ browsers' = Append(browsers, "running")
    /\ driver' = [driver EXCEPT ![s] = Len(browsers) + 1]

\* `if not self.driver:` in scrape_dynamic_content.
NeedsSetup(s) == driver[s] = NoDriver

\* scrape_dynamic_content(url, wait_selector, data_selectors) on scraper s.
\* launches: whether webdriver.Chrome succeeds, if it is called (its
\* exception leaves the method, self.driver still None). page: "data" when
\* the page loads and the wait is satisfied, "None" when driver.get or the
\* wait raises, which the except clause turns into None. Every command sent
\* to a browser that has been quit raises.
ScrapeDynamicContent(s, launches, page) ==
    IF NeedsSetup(s) /\ ~launches
    THEN /\ dynamic' = [op |-> "scrape", scraper |-> s, browser |-> 0,
                        launched |-> FALSE, wasQuit |-> FALSE,
                        result |-> "raised"]
         /\ UNCHANGED <<driver, browsers>>
         /\ UNCHANGED notBrowserVars
    ELSE /\ IF NeedsSetup(s)
            THEN SetupDriver(s)
            ELSE UNCHANGED <<driver, browsers>>
         /\ LET b    == driver'[s]
                quit == browsers'[b] = "quit"
            IN  dynamic' = [op |-> "scrape", scraper |-> s, browser |-> b,
                            launched |-> NeedsSetup(s), wasQuit |-> quit,
                            result |-> IF quit THEN "None" ELSE page]
         /\ UNCHANGED notBrowserVars

\* close(): `if self.driver: self.driver.quit()`; self.driver is left as it
\* is.
Close(s) ==
    /\ IF driver[s] # NoDriver
       THEN /\ browsers' = [browsers EXCEPT ![driver[s]] = "quit"]
            /\ dynamic' = [op |-> "close", scraper |-> s, browser |-> driver[s],
                           launched |-> FALSE,
                           wasQuit |-> browsers[driver[s]] = "quit",
                           result |-> ""]
       ELSE /\ UNCHANGED browsers
            /\ dynamic' = [op |-> "close", scraper |-> s, browser |-> 0,
                           launched |-> FALSE, wasQuit |-> FALSE, result |-> ""]
    /\ UNCHANGED driver
    /\ UNCHANGED notBrowserVars

BrowserIdle ==
    /\ driver = [s \in Scrapers |-> NoDriver]
    /\ browsers = <<>>
    /\ dynamic = NoCall

(***************************************************************************)
(* ScrapingPipeline (src/myapp1.py 285-347)                                *)
(***************************************************************************)

\* The URLs of the program, as strings.
Urls == {<<"A">>, <<"B">>}

UrlLists == SeqsUpTo(Urls, MaxUrls)

SaveUrlLists == SeqsUpTo(Urls, MaxSaveUrls)

\* The dicts an extractor function builds: field name -> value. The empty
\* dict is what scrape_basic_data returns for an empty selector map.
ExtractorDicts ==
    { <<>>,
      [title |-> StrValue(<<"a">>)] }

\* The requests handed to scrape_basic_data when it is the extractor
\* (scrape_multiple_pages passes **kwargs on): selector maps whose field
\* names include scraped_url and scraped_at.
RecordSelectorMaps ==
    { <<>>,
      [title |-> ".h"],
      [scraped_url |-> ".h"],
      [title |-> ".x", scraped_at |-> ".s"] }

\* The page every URL serves in that case.
RecordPage ==
    << [sel |-> ".h", nodes |-> << <<"b">> >>],
       [sel |-> ".s", nodes |-> << <<"a", " ">>, <<" ", "b">> >>],
       [sel |-> ".s", nodes |-> << <<" ", "a", " ">> >>] >>

\* The dicts scrape_basic_data builds for these requests (its `data`).
RecordDicts ==
    { [f \in DOMAIN sels |-> FieldValue(Select(RecordPage, sels[f]))] :
        sels \in RecordSelectorMaps }

\* datetime.now().isoformat(): the time as a string.
Digits == <<"0", "1", "2", "3", "4", "5", "6", "7", "8", "9">>

IsoFormat(t) == <<"T", Digits[t + 1]>>

\* datetime.now(): time passes between two readings of the clock.
Now == clock + 1

\* bool(data) for the dict d an extractor returned: the empty dict is falsy
\* (and so is None, which StepNone handles).
Truthy(d) == DOMAIN d # {}

\* data['scraped_url'] = url; data['scraped_at'] = datetime.now().isoformat()
Stamp(d, url, now) ==
    [k \in DOMAIN d \cup {"scraped_url", "scraped_at"} |->
        IF k = "scraped_url" THEN StrValue(url)
        ELSE IF k = "scraped_at" THEN StrValue(IsoFormat(now))
        ELSE d[k]]

\* One extractor call, as the log keeps it: the URL, the outcome ("raise",
\* "None" or "dict"), the dict object returned (0 for none) and the
\* contents it had when it was returned.
Call(url, outcome, obj, d) ==
    [url |-> url, outcome |-> outcome, obj |-> obj, dict |-> d]

\* scrape_multiple_pages(urls, scraper_func) starts: results = [].
ScrapeMultiplePages(us) ==
    /\ ppc = "idle"
    /\ ppc' = "loop"
    /\ urls' = us
    /\ index' = 0
    /\ results' = <<>>
    /\ calls' = <<>>
    /\ UNCHANGED <<self_results, returned, heap, cached, clock, files, printed>>
    /\ UNCHANGED notPipelineVars

\* Where the loop goes on after the except clause: `continue`.
AfterErrorBreaks(at, n) == n

AfterError(at, n) == at + 1

\* One iteration: scraper_func(url) raises an Exception; the except clause
\* prints it and continues with the next URL.
StepRaises ==
    /\ ppc = "loop"
    /\ index < Len(urls)
    /\ index' = AfterError(index, Len(urls))
    /\ calls' = Append(calls, Call(urls[index + 1], "raise", 0, <<>>))
    /\ UNCHANGED <<ppc, urls, results, self_results, returned, heap, cached,
                   clock, files, printed>>
    /\ UNCHANGED notPipelineVars

\* One iteration: scraper_func(url) returns None; `if data:` skips it.
StepNone ==
    /\ ppc = "loop"
    /\ index < Len(urls)
    /\ index' = index + 1
    /\ calls' = Append(calls, Call(urls[index + 1], "None", 0, <<>>))
    /\ UNCHANGED <<ppc, urls, results, self_results, returned, heap, cached,
                   clock, files, printed>>
    /\ UNCHANGED notPipelineVars

\* `if data:` and the statements under it, for the dict object obj of the heap h:
\* the object is stamped in place and appended to results.
StampAndAppend(h, obj, url, now) ==
    IF Truthy(h[obj])
    THEN /\ now <= MaxClock
         /\ heap' = [h EXCEPT ![obj] = Stamp(h[obj], url, now)]
         /\ results' = Append(results, obj)
         /\ clock' = now
    ELSE UNCHANGED <<heap, results, clock>>

\* One iteration: scraper_func(url) returns a dict it has just built, with
\* contents d. A falsy dict is dropped by `if data:` and is garbage at
\* once: the heap does not keep it.
StepFresh(d) ==
    /\ ppc = "loop"
    /\ index < Len(urls)
    /\ index' = index + 1
    /\ LET obj == Len(heap) + 1
       IN  /\ StampAndAppend(Append(heap, d), obj, urls[index + 1], Now)
           /\ calls' = Append(calls, Call(urls[index + 1], "dict",
                                           IF Truthy(d) THEN obj ELSE 0, d))
    /\ UNCHANGED <<ppc, urls, self_results, returned, cached, files, printed>>
    /\ UNCHANGED notPipelineVars

\* One iteration: scraper_func(url) returns the dict object it keeps and
\* hands back on every call (it builds it, with contents d, on its first
\* call).
StepShared(d) ==
    /\ ppc = "loop"
    /\ index < Len(urls)
    /\ index' = index + 1
    /\ IF cached = 0
       THEN /\ cached' = Len(heap) + 1
            /\ StampAndAppend(Append(heap, d), cached', urls[index + 1], Now)
            /\ calls' = Append(calls, Call(urls[index + 1], "dict", cached', d))
       ELSE /\ UNCHANGED cached
            /\ StampAndAppend(heap, cached, urls[index + 1], Now)
            /\ calls' = Append(calls,
                               Call(urls[index + 1], "dict", cached, heap[cached]))
    /\ UNCHANGED <<ppc, urls, self_results, returned, files, printed>>
    /\ UNCHANGED notPipelineVars

\* self.results.extend(results)
ExtendReplaces(list, more) == more

Extend(list, more) == list \o more

\* return results
ReturnValueIsSelfResults(local, all) == all

ReturnValue(local, all) == local

\* The loop is over: self.results.extend(results); return results.
ScrapeMultiplePagesReturns ==
    /\ ppc = "loop"
    /\ index >= Len(urls)
    /\ self_results' = Extend(self_results, results)
    /\ returned' = ReturnValue(results, self_results')
    /\ ppc' = "returned"
    /\ UNCHANGED <<urls, index, results, heap, cached, calls, clock, files, printed>>
    /\ UNCHANGED notPipelineVars

\* The caller has the returned list; the locals of the call are gone.
ScrapeMultiplePagesDone ==
    /\ ppc = "returned"
    /\ ppc' = "idle"
    /\ urls' = <<>>
    /\ index' = 0
    /\ results' = <<>>
    /\ calls' = <<>>
    /\ UNCHANGED <<self_results, returned, heap, cached, clock, files, printed>>
    /\ UNCHANGED notPipelineVars

(***************************************************************************)
(* json.dump(data, f, indent=2, ensure_ascii=False) (src/myapp1.py 345)    *)
(***************************************************************************)

\* The text of a file is a sequence of characters (a field name is kept as
\* one piece).

\* The escape of one character of a string: the quote, the backslash and
\* the newline are escaped; with ensure_ascii=False every other printable
\* character, ASCII or not, is written as it is.
EscapeNothing(c) == <<c>>

EscapeChar(c) ==
    IF c = "\"" THEN <<"\\", "\"">>
    ELSE IF c = "\\" THEN <<"\\", "\\">>
    ELSE IF c = "\n" THEN <<"\\", "n">>
    ELSE <<c>>

RECURSIVE Escaped(_)
Escaped(s) ==
    IF s = <<>> THEN <<>> ELSE EscapeChar(Head(s)) \o Escaped(Tail(s))

DumpString(s) == <<"\"">> \o Escaped(s) \o <<"\"">>

\* indent=2: the indentation of a line at a nesting level.
Spaces(n) == [i \in 1 .. n |-> " "]

RECURSIVE JoinItems(_, _)
JoinItems(items, sep) ==
    IF items = <<>> THEN <<>>
    ELSE IF Len(items) = 1 THEN items[1]
    ELSE items[1] \o sep \o JoinItems(Tail(items), sep)

\* A list or a dict at a nesting level: empty, it is written as its two
\* brackets; otherwise one item per line, a comma after each but the last.
DumpContainer(open, close, items, level) ==
    IF items = <<>> THEN <<open, close>>
    ELSE <<open, "\n">>
         \o JoinItems([k \in 1 .. Len(items) |->
                          Spaces(2 * (level + 1)) \o items[k]],
                      <<",", "\n">>)
         \o <<"\n">> \o Spaces(2 * level) \o <<close>>

\* A field value: None is written as null, a string as a string, a list of
\* strings as an array.
DumpValue(v, level) ==
    IF v.kind = "None" THEN <<"n", "u", "l", "l">>
    ELSE IF v.kind = "str" THEN DumpString(v.str)
    ELSE DumpContainer("[", "]",
                       [k \in 1 .. Len(v.list) |-> DumpString(v.list[k])],
                       level)

\* The order in which the fields of a dict are written (a dict keeps the
\* order of insertion; the equality of dicts does not depend on it).
KeyOrder == <<"title", "body", "scraped_url", "scraped_at">>

Keys(d) == SelectSeq(KeyOrder, LAMBDA k : k \in DOMAIN d)

DumpDict(d, level) ==
    LET ks == Keys(d)
    IN  DumpContainer("{", "}",
                      [k \in 1 .. Len(ks) |->
                          <<"\"", ks[k], "\"", ":", " ">>
                          \o DumpValue(d[ks[k]], level + 1)],
                      level)

\* json.dump of a list of dicts.
JsonDump(records) ==
    DumpContainer("[", "]",
                  [k \in 1 .. Len(records) |-> DumpDict(records[k], 1)],
                  0)

\* The files of the output directory.
Filenames == {"out"}

NoFile == [kind |-> "absent", records |-> <<>>, text |-> <<>>]

\* The data argument of save_to_csv and save_to_json: None (the default),
\* an empty list, or the list the last scrape_multiple_pages call returned.
DataArgs == {"None", "empty", "returned"}

\* `if data is None: data = self.results`
Data(arg) ==
    IF arg = "None" THEN self_results
    ELSE IF arg = "returned" THEN returned
    ELSE <<>>

\* What is written: the dicts of the list, as they are now; a CSV file
\* holds them as rows, a JSON file as the text json.dump writes.
Written(kind, list) ==
    LET dicts == [k \in 1 .. Len(list) |-> heap[list[k]]]
    IN  [kind |-> kind,
         records |-> IF kind = "csv" THEN dicts ELSE <<>>,
         text |-> IF kind = "json" THEN JsonDump(dicts) ELSE <<>>]

\* save_to_csv(filename, data): `if not data:` prints and returns; else the
\* list of dicts goes to the file through a DataFrame.
SaveToCsv(filename, arg) ==
    /\ ppc = "idle"
    /\ IF Data(arg) = <<>>
       THEN /\ printed' = "No data to save"
            /\ UNCHANGED files
       ELSE /\ files' = [files EXCEPT ![filename] = Written("csv", Data(arg))]
            /\ printed' = "Data saved to"
    /\ UNCHANGED <<ppc, urls, index, results, self_results, returned, heap, cached,
                   calls, clock>>
    /\ UNCHANGED notPipelineVars

\* save_to_json(filename, data): the file is opened for writing and the
\* list is dumped, whatever its length.
SaveToJson(filename, arg) ==
    /\ ppc = "idle"
    /\ files' = [files EXCEPT ![filename] = Written("json", Data(arg))]
    /\ printed' = "Data saved to"
    /\ UNCHANGED <<ppc, urls, index, results, self_results, returned, heap, cached,
                   calls, clock>>
    /\ UNCHANGED notPipelineVars

\* ScrapingPipeline(): self.results = [], in an output directory without
\* files.
PipelineIdle ==
    /\ ppc = "idle"
    /\ urls = <<>>
    /\ index = 0
    /\ results = <<>>
    /\ self_results = <<>>
    /\ returned = <<>>
    /\ heap = <<>>
    /\ cached = 0
    /\ calls = <<>>
    /\ clock = 0
    /\ files = [f \in Filenames |-> NoFile]
    /\ printed = ""

(***************************************************************************)
(* GroceryShop (src/myapp.py 30-98)                                        *)
(***************************************************************************)

\* The ids of the products of the catalogue, and an id no product has.
ProductIds == {"a", "b"}

UnknownIds == {"z"}

\* The name and the price a product of the catalogue is added with.
Names == [a |-> "Apple", b |-> "Bread"]

Prices == [a |-> 2, b |-> 3]

\* The stock a product is added with or updated to.
StockValues == 0 .. MaxStock

\* The lines of a sale, (product_id, quantity): of a product once or
\* twice, of another product, of a product the shop does not have.
Lines == {<<"a", 1>>, <<"a", 2>>, <<"b", 1>>, <<"z", 1>>}

\* Product(id, name, price, stock)
Product(id, stock) ==
    [id |-> id, name |-> Names[id], price |-> Prices[id], stock |-> stock]

\* The items argument of process_sale: a list of (product_id, quantity).
ItemLists == SeqsUpTo(Lines, MaxItems)

\* What save_data writes: the products and the sales history as they are.
NoDataFile == [exists |-> FALSE, products |-> <<>>, sales_history |-> <<>>]

SaveData(prods, history) ==
    [exists |-> TRUE, products |-> prods, sales_history |-> history]

\* add_product(product): self.products[product.id] = product; save_data().
AddProduct(id, stock) ==
    /\ products' = (id :> Product(id, stock)) @@ products
    /\ data_file' = SaveData(products', sales_history)
    /\ shop_result' = "None"
    /\ accepted' = <<>>
    /\ UNCHANGED sales_history
    /\ UNCHANGED notShopVars

\* update_stock(product_id, new_stock)
UpdateStock(id, new_stock) ==
    /\ IF id \in DOMAIN products
       THEN /\ products' = [products EXCEPT ![id].stock = new_stock]
            /\ data_file' = SaveData(products', sales_history)
            /\ shop_result' = "True"
       ELSE /\ UNCHANGED <<products, data_file>>
            /\ shop_result' = "False"
    /\ accepted' = <<>>
    /\ UNCHANGED sales_history
    /\ UNCHANGED notShopVars

\* `if product.stock >= quantity:`
StockSufficesIfAny(stock, quantity) == stock > 0

StockSuffices(stock, quantity) == stock >= quantity

\* The loop of process_sale over the lines that are left, from the
\* products as the lines before have left them: it ends by raising
\* ValueError at the first line whose product is unknown or short of stock,
\* or at the end of the list. log keeps, for each line that was accepted,
\* the stock its product had when the line was reached.
RECURSIVE SaleLoop(_, _, _, _, _)
SaleLoop(prods, items, sale_total, sale_items, log) ==
    IF items = <<>>
    THEN [raised |-> FALSE, products |-> prods, sale_total |-> sale_total,
          sale_items |-> sale_items, accepted |-> log]
    ELSE LET product_id == Head(items)[1]
             quantity   == Head(items)[2]
             stopped    == [raised |-> TRUE, products |-> prods,
                            sale_total |-> sale_total,
                            sale_items |-> sale_items, accepted |-> log]
         IN  IF product_id \in DOMAIN prods
             THEN LET product == prods[product_id]
                      item_total == product.price * quantity
                  IN  IF StockSuffices(product.stock, quantity)
                      THEN SaleLoop(
                              [prods EXCEPT ![product_id].stock = @ - quantity],
                              Tail(items),
                              sale_total + item_total,
                              Append(sale_items,
                                     [name |-> product.name, quantity |-> quantity,
                                      price |-> product.price, total |-> item_total]),
                              Append(log,
                                     [product_id |-> product_id,
                                      quantity |-> quantity,
                                      stock |-> product.stock]))
                      ELSE stopped
             ELSE stopped

\* process_sale(items): the loop, then, unless it raised, the sale record
\* is appended and save_data() writes the file. The n-th sale reads the
\* clock at time n.
ProcessSale(items) ==
    /\ Len(sales_history) < MaxSales
    /\ LET sale == SaleLoop(products, items, 0, <<>>, <<>>)
           sale_record == [timestamp |-> IsoFormat(Len(sales_history) + 1),
                           items |-> sale.sale_items,
                           total |-> sale.sale_total]
       IN  /\ products' = sale.products
           /\ accepted' = sale.accepted
           /\ IF sale.raised
              THEN /\ shop_result' = "raised"
                   /\ UNCHANGED <<sales_history, data_file>>
              ELSE /\ shop_result' = "returned"
                   /\ sales_history' = Append(sales_history, sale_record)
                   /\ data_file' = SaveData(products', sales_history')
    /\ UNCHANGED notShopVars

\* GroceryShop() where no data file exists: no product, no sale.
ShopIdle ==
    /\ products = <<>>
    /\ sales_history = <<>>
    /\ data_file = NoDataFile
    /\ shop_result = ""
    /\ accepted = <<>>

(***************************************************************************)
(* The specifications                                                      *)
(***************************************************************************)

InitFetch ==
    FetchIdle /\ ExtractIdle /\ TableIdle /\ LinksIdle /\ BrowserIdle /\ PipelineIdle
    /\ ShopIdle

NextFetch ==
    \/ \E r \in RetriesValues : GetPage(r)
    \/ \E o \in Outcomes : AttemptReturns(o)
    \/ \E o \in Outcomes : AttemptRetries(o)
    \/ \E o \in Outcomes : AttemptPropagates(o)
    \/ LoopExhausted
    \/ FetchDone

SpecFetch == InitFetch /\ [][NextFetch]_vars

\* scrape_basic_data on any page.
InitExtract ==
    /\ FetchIdle /\ TableIdle /\ LinksIdle /\ BrowserIdle /\ PipelineIdle
    /\ ShopIdle
    /\ epc = "idle"
    /\ soup \in Pages
    /\ selectors = <<>>
    /\ efetched = FALSE
    /\ data = NoData

NextExtract ==
    \/ \E sels \in SelectorMaps, fetched \in BOOLEAN :
          ScrapeBasicData(sels, fetched)
    \/ ExtractDone

SpecExtract == InitExtract /\ [][NextExtract]_vars

\* scrape_table on any page.
InitTable ==
    /\ FetchIdle /\ ExtractIdle /\ LinksIdle /\ BrowserIdle /\ PipelineIdle
    /\ ShopIdle
    /\ tpc = "idle"
    /\ tsoup \in TablePages
    /\ table_selector = ""
    /\ tfetched = FALSE
    /\ df = NoFrame

NextTable ==
    \/ \E sel \in {"table", "div"}, fetched \in BOOLEAN :
          ScrapeTable(sel, fetched)
    \/ TableDone

SpecTable == InitTable /\ [][NextTable]_vars

\* scrape_links on any page.
InitLinks ==
    /\ FetchIdle /\ ExtractIdle /\ TableIdle /\ BrowserIdle /\ PipelineIdle
    /\ ShopIdle
    /\ lpc = "idle"
    /\ lsoup \in LinkPages
    /\ link_selector = ""
    /\ base_url = NoneValue
    /\ lfetched = FALSE
    /\ links = <<>>

NextLinks ==
    \/ \E sel \in {"a", ".nav"}, base \in BaseUrls, fetched \in BOOLEAN :
          ScrapeLinks(sel, base, fetched)
    \/ LinksDone

SpecLinks == InitLinks /\ [][NextLinks]_vars

InitBrowser ==
    FetchIdle /\ ExtractIdle /\ TableIdle /\ LinksIdle /\ BrowserIdle /\ PipelineIdle
    /\ ShopIdle

NextBrowser ==
    \/ \E s \in Scrapers, launches \in BOOLEAN, page \in {"data", "None"} :
          ScrapeDynamicContent(s, launches, page)
    \/ \E s \in Scrapers : Close(s)

SpecBrowser == InitBrowser /\ [][NextBrowser]_vars

InitPipeline ==
    FetchIdle /\ ExtractIdle /\ TableIdle /\ LinksIdle /\ BrowserIdle /\ PipelineIdle
    /\ ShopIdle

\* The iterations of the loop of scrape_multiple_pages and its return.
Steps ==
    \/ StepRaises
    \/ StepNone
    \/ \E d \in ExtractorDicts : StepFresh(d)
    \/ \E d \in ExtractorDicts \ {<<>>} : StepShared(d)
    \/ ScrapeMultiplePagesReturns
    \/ ScrapeMultiplePagesDone

\* One pipeline, any sequence of scrape_multiple_pages calls.
NextPipeline ==
    \/ \E us \in UrlLists : ScrapeMultiplePages(us)
    \/ Steps

SpecPipeline == InitPipeline /\ [][NextPipeline]_vars

\* One pipeline, any sequence of scrape_multiple_pages, save_to_csv and
\* save_to_json calls.
NextSave ==
    \/ \E us \in SaveUrlLists : ScrapeMultiplePages(us)
    \/ Steps
    \/ \E fn \in Filenames, arg \in DataArgs : SaveToCsv(fn, arg)
    \/ \E fn \in Filenames, arg \in DataArgs : SaveToJson(fn, arg)

SpecSave == InitPipeline /\ [][NextSave]_vars

\* One pipeline whose scraper_func is WebScraper.scrape_basic_data: a call
\* of it returns None (the page could not be fetched) or the dict it has
\* just built; it never raises.
NextRecord ==
    \/ \E us \in SaveUrlLists : ScrapeMultiplePages(us)
    \/ StepNone
    \/ \E d \in RecordDicts : StepFresh(d)
    \/ ScrapeMultiplePagesReturns
    \/ ScrapeMultiplePagesDone

SpecRecord == InitPipeline /\ [][NextRecord]_vars

\* The field values of the records that save_to_json is given: None, the
\* empty string, strings with a quote, a backslash, a newline, a character
\* outside ASCII, the word null, and lists of strings.
JsonValues ==
    { NoneValue,
      StrValue(<<>>),
      StrValue(<<"a", "\"", " ">>),
      StrValue(<<"\\", "n">>),
      StrValue(<<"é", "\n">>),
      StrValue(<<"n", "u", "l", "l">>),
      ListValue(<<>>),
      ListValue(<< <<"a">>, <<"]", ",", "\"">> >>) }

\* One pipeline after a scrape_multiple_pages call whose extractor built
\* one record with a title for each URL.
InitJson ==
    /\ FetchIdle /\ ExtractIdle /\ TableIdle /\ LinksIdle /\ BrowserIdle
    /\ ShopIdle
    /\ ppc = "idle"
    /\ urls = <<>>
    /\ index = 0
    /\ results = <<>>
    /\ \E titles \in SeqsUpTo(JsonValues, MaxSaveUrls) :
          /\ heap = [k \in 1 .. Len(titles) |->
                        Stamp([title |-> titles[k]], <<"A">>, k)]
          /\ self_results = [k \in 1 .. Len(titles) |-> k]
          /\ returned = [k \in 1 .. Len(titles) |-> k]
          /\ clock = Len(titles)
    /\ cached = 0
    /\ calls = <<>>
    /\ files = [f \in Filenames |-> NoFile]
    /\ printed = ""

NextJson ==
    \E fn \in Filenames, arg \in DataArgs : SaveToJson(fn, arg)

SpecJson == InitJson /\ [][NextJson]_vars

InitShop ==
    /\ FetchIdle /\ ExtractIdle /\ TableIdle /\ LinksIdle /\ BrowserIdle
    /\ PipelineIdle /\ ShopIdle

\* One shop, any sequence of add_product, update_stock and process_sale
\* calls with stocks >= 0 and quantities >= 1.
NextShop ==
    \/ \E id \in ProductIds, stock \in StockValues : AddProduct(id, stock)
    \/ \E id \in ProductIds \cup UnknownIds, stock \in StockValues :
          UpdateStock(id, stock)
    \/ \E items \in ItemLists : ProcessSale(items)

SpecShop == InitShop /\ [][NextShop]_vars

(***************************************************************************)
(* Properties of get_page                                                  *)
(***************************************************************************)

\* The positions of the requests the call has made.
RequestPositions == {i \in 1 .. Len(events) : events[i].kind = "request"}

\* The number of requests made before position i: the 0-based number of
\* the attempt the event at position i belongs to.
AttemptIndexAt(i) == Cardinality({j \in RequestPositions : j < i})

BackoffSecs == SelectSeq(events, LAMBDA e : e.kind = "backoff")

AllTransportFailures ==
    \A i \in RequestPositions : events[i].n = TransportError

\* C2: for retries >= 1 and a URL whose every attempt fails with a transport
\* error, get_page never makes more than `retries` requests; once `retries`
\* requests have failed the call has raised to its caller (it neither
\* returns nor goes on); it then has made exactly `retries` requests, has
\* slept 2^attempt seconds (attempt counted from 0, as the loop variable is)
\* after each failed attempt but the last, each backoff directly after the
\* request that failed, and the last thing it did is the failed request, not
\* a sleep.
C2_RetryBudgetAndBackoff ==
    (retries >= 1 /\ AllTransportFailures) =>
        /\ Cardinality(RequestPositions) <= retries
        /\ Cardinality(RequestPositions) = retries => fpc = "raised"
        /\ fpc = "raised" =>
            /\ Cardinality(RequestPositions) = retries
            /\ Len(BackoffSecs) = retries - 1
            /\ \A k \in 1 .. Len(BackoffSecs) : BackoffSecs[k].n = 2 ^ (k - 1)
            /\ events[Len(events)].kind = "request"
        /\ \A i \in 1 .. Len(events) :
            events[i].kind = "backoff" =>
                /\ i > 1
                /\ events[i - 1].kind = "request"
                /\ AttemptIndexAt(i) < retries

\* C2's case: a call with retries = 3 has raised after three transport
\* failures and two backoff sleeps.
C2_Witness ==
    /\ fpc = "raised"
    /\ retries = 3
    /\ AllTransportFailures
    /\ Len(BackoffSecs) = 2

\* C8 as claimed: get_page never returns a response whose status is outside
\* 2xx.
C8_OnlyReturns2xx ==
    (fpc = "returned" /\ response.kind = "Response") =>
        (200 <= response.status /\ response.status <= 299)

IsErrorStatus(n) == 400 <= n /\ n <= 599

\* C8 as amended: get_page never returns a response whose status is 4xx or
\* 5xx. Every attempt that ends with a 4xx or 5xx status is a failed attempt
\* with the budget and backoff of a transport failure: on a non-final
\* attempt it is followed by the backoff sleep of 2^attempt seconds, on the
\* final attempt the call raises. A response with any other status (2xx, but
\* also 1xx and 3xx) ends the call and is returned to the caller.
C8_ErrorStatusIsRetried ==
    /\ (fpc = "returned" /\ response.kind = "Response") =>
           ~IsErrorStatus(response.status)
    /\ \A i \in RequestPositions :
        IF IsErrorStatus(events[i].n)
        THEN IF AttemptIndexAt(i) = retries - 1
             THEN i = Len(events) /\ fpc = "raised"
             ELSE /\ i < Len(events)
                  /\ events[i + 1] = BackoffSleep(2 ^ AttemptIndexAt(i))
                  /\ AttemptIndexAt(i) < retries - 1
        ELSE events[i].n # TransportError =>
                /\ i = Len(events)
                /\ fpc = "returned"
                /\ response = Response(events[i].n)

\* C8's case: a 404 on a non-final attempt was retried after a backoff, and
\* a 503 on the final attempt made the call raise.
C8_Witness ==
    /\ fpc = "raised"
    /\ \E i \in RequestPositions : events[i].n = 404 /\ i < Len(events)
    /\ events[Len(events)] = Request(503)

\* C14: whatever the retries argument (0 and negative values too), a
\* get_page call ends in one of two ways: it returns the response of a
\* request it made, of the last one, which succeeded; or it raises after a
\* request that failed. It never returns without a response and never ends
\* without having made a request.
C14_ReturnsResponseOrRaises ==
    /\ fpc = "returned" =>
        /\ response.kind = "Response"
        /\ RequestPositions # {}
        /\ events[Len(events)] = Request(response.status)
        /\ ~AttemptRaises(response.status)
    /\ fpc = "raised" =>
        /\ RequestPositions # {}
        /\ events[Len(events)].kind = "request"
        /\ AttemptRaises(events[Len(events)].n)

(***************************************************************************)
(* Properties of scrape_basic_data                                         *)
(***************************************************************************)

\* The positions, in the page, of the elements a selector matches.
MatchPositions(sel) == {p \in 1 .. Len(soup) : soup[p].sel = sel}

\* The k-th smallest member of a set of positions.
Nth(S, k) == CHOOSE p \in S : Cardinality({q \in S : q < p}) = k - 1

NoSurroundingWhitespace(t) ==
    t = <<>> \/ (t[1] \notin Whitespace /\ t[Len(t)] \notin Whitespace)

\* r is s without its leading and trailing whitespace: s is a run of
\* whitespace, then r, then a run of whitespace, and r neither starts nor
\* ends with whitespace.
IsTrimmed(r, s) ==
    /\ NoSurroundingWhitespace(r)
    /\ \E a \in 0 .. Len(s) :
        /\ a + Len(r) <= Len(s)
        /\ \A k \in 1 .. a : s[k] \in Whitespace
        /\ \A k \in 1 .. Len(r) : r[k] = s[a + k]
        /\ \A k \in (a + Len(r) + 1) .. Len(s) : s[k] \in Whitespace

\* t is the trimmed text of an element with the text nodes `nodes`: the
\* nodes, each trimmed, one after the other.
IsTrimmedText(t, nodes) ==
    \E cut \in [0 .. Len(nodes) -> 0 .. Len(t)] :
        /\ cut[0] = 0
        /\ cut[Len(nodes)] = Len(t)
        /\ \A k \in 1 .. Len(nodes) :
            /\ cut[k - 1] <= cut[k]
            /\ IsTrimmed(SubSeq(t, cut[k - 1] + 1, cut[k]), nodes[k])

\* C3: when the page was fetched, scrape_basic_data returns a dict (it does
\* not raise, whatever the selectors match) with exactly the fields of the
\* selector map, and for every field: the absent marker None when the
\* selector matches no element; when it matches exactly one element, that
\* element's trimmed text as a scalar string without surrounding whitespace;
\* when it matches two or more, a sequence with one trimmed text per
\* matching element, in document order.
C3_FieldShapeByMatchCount ==
    (epc = "done" /\ efetched) =>
        /\ data.kind = "dict"
        /\ DOMAIN data.dict = DOMAIN selectors
        /\ \A f \in DOMAIN selectors :
            LET m == MatchPositions(selectors[f])
                v == data.dict[f]
            IN  /\ m = {} => v = NoneValue
                /\ Cardinality(m) = 1 =>
                    /\ v.kind = "str"
                    /\ NoSurroundingWhitespace(v.str)
                    /\ IsTrimmedText(v.str, soup[Nth(m, 1)].nodes)
                /\ Cardinality(m) >= 2 =>
                    /\ v.kind = "list"
                    /\ Len(v.list) = Cardinality(m)
                    /\ \A k \in 1 .. Len(v.list) :
                        IsTrimmedText(v.list[k], soup[Nth(m, k)].nodes)

\* C3's case: one call gave None for a selector without a match and, for a
\* selector with one match, a scalar that lost its whitespace; or it gave a
\* sequence of two texts in document order and a scalar.
C3_Witness ==
    /\ epc = "done"
    /\ efetched
    /\ DOMAIN selectors = {"title", "body"}
    /\ \/ /\ data.dict["title"] = NoneValue
          /\ data.dict["body"] = StrValue(<<"a", "b">>)
       \/ /\ data.dict["title"] = ListValue(<< <<"a">>, <<"b">> >>)
          /\ data.dict["body"] = StrValue(<<"a">>)
          /\ Len(soup) = 3

(***************************************************************************)
(* Properties of scrape_table                                              *)
(***************************************************************************)

TablePositions == {p \in 1 .. Len(tsoup) : tsoup[p].sel = table_selector}

\* The trimmed texts of the cells of a row.
IsTrimmedRow(texts, row) ==
    /\ Len(texts) = Len(row)
    /\ \A c \in 1 .. Len(row) : IsTrimmedText(texts[c], row[c])

\* C9: when the page was fetched, scrape_table returns a table exactly when
\* the first table matching the selector has a first row with at least one
\* cell and a later row with at least one cell; the header is then the
\* trimmed cells of the first row and the data rows are the later rows with
\* at least one cell, in document order; in every other case it returns
\* None.
C9_TableIffHeaderAndDataRow ==
    (tpc = "done" /\ tfetched) =>
        IF TablePositions = {}
        THEN df = NoFrame
        ELSE LET trs   == tsoup[Nth(TablePositions, 1)].rows
                 later == {r \in 2 .. Len(trs) : trs[r] # <<>>}
             IN  IF trs # <<>> /\ trs[1] # <<>> /\ later # {}
                 THEN /\ df.kind = "DataFrame"
                      /\ IsTrimmedRow(df.columns, trs[1])
                      /\ Len(df.rows) = Cardinality(later)
                      /\ \A k \in 1 .. Len(df.rows) :
                            IsTrimmedRow(df.rows[k], trs[Nth(later, k)])
                 ELSE df = NoFrame

(***************************************************************************)
(* Properties of scrape_links                                              *)
(***************************************************************************)

\* The positions, in the page, of the anchors the selector matches and
\* whose href attribute is present and not empty.
LinkPositions ==
    {p \in 1 .. Len(lsoup) :
        /\ lsoup[p].sel = link_selector
        /\ "href" \in DOMAIN lsoup[p].attrs
        /\ lsoup[p].attrs["href"] # <<>>}

XCom == <<"https:", "/", "/", "x.com">>

\* The reference resolution of RFC 3986 (section 5.2) for the hrefs and the
\* bases of the model, written out: an absolute href is the result; a
\* root-relative href replaces the path of the base; a relative href is
\* merged with the base path up to its last "/", and a parent segment
\* removes the segment before it.
ResolvedAgainst(base, href) ==
    IF Head(href) \in Schemes THEN href
    ELSE IF href = <<"/", "top">> THEN XCom \o <<"/", "top">>
    ELSE IF href = <<"..", "/", "up">> THEN XCom \o <<"/", "up">>
    ELSE IF base = XCom THEN XCom \o <<"/">> \o href
    ELSE XCom \o <<"/", "dir", "/">> \o href

\* C11: when the page was fetched, scrape_links returns one record per
\* anchor that the selector matches and that has a non-empty href, in
\* document order, and none for the anchors whose href is missing or empty;
\* each record has exactly the fields url, text and title; text is the
\* trimmed text of the anchor and title its title attribute (the empty
\* string without one); with a base_url the url is the href resolved against
\* it, without one (None, or the empty string) the href as it is.
C11_LinkPerAnchorWithHref ==
    (lpc = "done" /\ lfetched) =>
        /\ Len(links) = Cardinality(LinkPositions)
        /\ \A k \in 1 .. Len(links) :
            LET link == lsoup[Nth(LinkPositions, k)]
                href == link.attrs["href"]
            IN  /\ DOMAIN links[k] = {"url", "text", "title"}
                /\ links[k].url =
                      IF base_url.kind = "str" /\ base_url.str # <<>>
                      THEN ResolvedAgainst(base_url.str, href)
                      ELSE href
                /\ IsTrimmedText(links[k].text, link.nodes)
                /\ links[k].title =
                      IF "title" \in DOMAIN link.attrs
                      THEN link.attrs["title"] ELSE <<>>

\* C11's case: with base "https://x.com/dir/" a page whose first matching
\* anchor has no usable href and whose second has href "page.html" gave the
\* one record with url "https://x.com/dir/page.html".
C11_Witness ==
    /\ lpc = "done"
    /\ lfetched
    /\ base_url = StrValue(<<"https:", "/", "/", "x.com", "/", "dir", "/">>)
    /\ Len(lsoup) = 2
    /\ lsoup[1].sel = link_selector
    /\ lsoup[2].sel = link_selector
    /\ LinkPositions = {2}
    /\ lsoup[2].attrs["href"] = <<"page.html">>
    /\ Len(links) = 1
    /\ links[1].url = <<"https:", "/", "/", "x.com", "/", "dir", "/", "page.html">>

(***************************************************************************)
(* Properties of AdvancedScraper                                           *)
(***************************************************************************)

\* C10: a browser is launched only by a scraper that holds none, so every
\* browser ever launched is the one its scraper still holds; a call before
\* close acts on that browser; close quits it; and no call, close or
\* scrape_dynamic_content, ever acts on a browser that has been quit.
C10_BrowserLifecycle ==
    /\ \A b \in 1 .. Len(browsers) :
        Cardinality({s \in Scrapers : driver[s] = b}) = 1
    /\ dynamic.browser # 0 => dynamic.browser = driver[dynamic.scraper]
    /\ (dynamic.op = "close" /\ dynamic.browser # 0) =>
            browsers[dynamic.browser] = "quit"
    /\ ~dynamic.wasQuit

(***************************************************************************)
(* Properties of ScrapingPipeline                                          *)
(***************************************************************************)

\* An extractor call succeeded: it returned a record, not an exception and
\* not an absent result (None, or a dict without any field).
Succeeded(c) == c.outcome = "dict" /\ DOMAIN c.dict # {}

\* The dict objects the successful calls of the running call returned, in
\* the order of the calls.
SucceededObjs ==
    LET ok == SelectSeq(calls, Succeeded)
    IN  [k \in 1 .. Len(ok) |-> ok[k].obj]

StampFields == {"scraped_url", "scraped_at"}

\* C1: scrape_multiple_pages calls the extractor for every URL of the
\* sequence, in order, whatever the earlier calls did (an exception, None or
\* an empty result never ends the loop early); the records collected so far,
\* and in the end the returned list, are exactly the dicts the successful
\* calls returned, in the order of their URLs, each with the field values
\* the extractor gave it.
C1_PartialFailureTolerant ==
    /\ index <= Len(urls)
    /\ Len(calls) = index
    /\ \A k \in 1 .. Len(calls) : calls[k].url = urls[k]
    /\ ppc = "loop" => results = SucceededObjs
    /\ ppc = "returned" =>
        /\ index = Len(urls)
        /\ returned = SucceededObjs
        /\ LET ok == SelectSeq(calls, Succeeded)
           IN  \A k \in 1 .. Len(ok) :
                \A f \in DOMAIN ok[k].dict \ StampFields :
                    /\ f \in DOMAIN heap[returned[k]]
                    /\ heap[returned[k]][f] = ok[k].dict[f]

\* C1's case: of three URLs the second failed with an exception, and the
\* call returned the records of the first and the third, in that order.
C1_Witness ==
    /\ ppc = "returned"
    /\ Len(urls) = 3
    /\ Succeeded(calls[1])
    /\ calls[2].outcome = "raise"
    /\ Succeeded(calls[3])
    /\ returned = <<calls[1].obj, calls[3].obj>>
    /\ calls[1].obj # calls[3].obj

\* C4: a save_to_csv or save_to_json call whose data (self.results, or the
\* list given) is empty reports it and leaves every file of the output
\* directory as it was.
C4_EmptySaveIsNoOp ==
    [][\A fn \in Filenames, arg \in DataArgs :
          (Data(arg) = <<>> /\ (SaveToCsv(fn, arg) \/ SaveToJson(fn, arg))) =>
              (files' = files /\ printed' = "No data to save")]_vars

IsPrefix(a, b) == Len(a) <= Len(b) /\ SubSeq(b, 1, Len(a)) = a

\* C5: self.results is append-only: every step of every call leaves the
\* list it was as a prefix of the list it becomes; the return of a
\* scrape_multiple_pages call extends it by the records of the URLs whose
\* extraction succeeded in that call, one per URL, in URL order; no other
\* step (an iteration, save_to_csv, save_to_json) changes it.
C5_ResultSetAppendOnly ==
    [][/\ IsPrefix(self_results, self_results')
       /\ IF ppc = "loop" /\ ppc' = "returned"
          THEN self_results' = self_results \o SucceededObjs
          ELSE self_results' = self_results]_vars

\* C5's case: a second call has appended its records after those of the
\* first, and a file has been written.
C5_Witness ==
    /\ ppc = "returned"
    /\ returned # <<>>
    /\ Len(self_results) > Len(returned)
    /\ \E fn \in Filenames : files[fn].kind # "absent"

\* C6 as claimed: what scrape_multiple_pages returns is self.results, the
\* records accumulated by the pipeline over its lifetime.
C6_ReturnsResultSet == ppc = "returned" => returned = self_results

\* C6 as amended: scrape_multiple_pages returns the records of that call
\* only: the list it returns is what the call appended to self.results, one
\* record per URL whose extraction succeeded in the call, and holds no
\* record of an earlier call.
C6_ReturnsRecordsOfTheCall ==
    [][(ppc = "loop" /\ ppc' = "returned") =>
          /\ self_results' = self_results \o returned'
          /\ Len(returned') = Len(SelectSeq(calls, Succeeded))]_vars

\* C6's case: a call has returned its records while self.results holds
\* records of an earlier call too.
C6_Witness ==
    /\ ppc = "returned"
    /\ returned # <<>>
    /\ Len(self_results) > Len(returned)
    /\ calls # <<>>

Range(q) == {q[k] : k \in 1 .. Len(q)}

\* C7: no step changes a record that has been appended, to the list of the
\* running call or to self.results: every field of it, its scraped_url and
\* scraped_at too, keeps its value.
C7_AppendedRecordsImmutable ==
    [][\A obj \in Range(results) \cup Range(self_results) :
          heap'[obj] = heap[obj]]_vars

\* C12: every record a scrape_multiple_pages call appends has exactly the
\* fields declared in the request and the two appended fields scraped_url
\* and scraped_at; every declared field holds the value extraction gave it
\* (None, a string or a list of strings), whatever its name, scraped_url
\* and scraped_at included; and scraped_url is the URL the record was
\* extracted from.
C12_RecordHasDeclaredFields ==
    ppc = "returned" =>
        LET ok == SelectSeq(calls, Succeeded)
        IN  \A k \in 1 .. Len(ok) :
                LET rec == heap[returned[k]]
                IN  /\ DOMAIN rec = DOMAIN ok[k].dict \cup StampFields
                    /\ \A f \in DOMAIN ok[k].dict : rec[f] = ok[k].dict[f]
                    /\ rec["scraped_url"] = StrValue(ok[k].url)

(***************************************************************************)
(* Reading a JSON file back: json.load                                     *)
(***************************************************************************)

\* The character at a position of a text, "EOF" beyond its end.
At(t, i) == IF i >= 1 /\ i <= Len(t) THEN t[i] ELSE "EOF"

JsonWhitespace == {" ", "\n"}

RECURSIVE SkipWs(_, _)
SkipWs(t, i) == IF At(t, i) \in JsonWhitespace THEN SkipWs(t, i + 1) ELSE i

\* The outcome of reading a piece of the text: an error, or the value read
\* and the position after it.
Fail == [ok |-> FALSE, val |-> <<>>, pos |-> 0]

Parsed(v, p) == [ok |-> TRUE, val |-> v, pos |-> p]

Unescape(c) == IF c = "n" THEN "\n" ELSE c

\* The characters of a string, from a position after its opening quote to
\* its closing quote; a newline as it is within a string is an error.
RECURSIVE ScanString(_, _, _)
ScanString(t, i, acc) ==
    LET c == At(t, i)
    IN  IF c \in {"EOF", "\n"} THEN Fail
        ELSE IF c = "\"" THEN Parsed(acc, i + 1)
        ELSE IF c = "\\"
             THEN IF At(t, i + 1) \in {"\"", "\\", "n"}
                  THEN ScanString(t, i + 2, Append(acc, Unescape(At(t, i + 1))))
                  ELSE Fail
        ELSE ScanString(t, i + 1, Append(acc, c))

ParseString(t, i) ==
    IF At(t, i) = "\"" THEN ScanString(t, i + 1, <<>>) ELSE Fail

\* The items of an array of strings, from the first one to the closing
\* bracket.
RECURSIVE ParseStringItems(_, _, _)
ParseStringItems(t, i, acc) ==
    LET s == ParseString(t, SkipWs(t, i))
        j == SkipWs(t, s.pos)
    IN  IF ~s.ok THEN Fail
        ELSE IF At(t, j) = "," THEN ParseStringItems(t, j + 1, Append(acc, s.val))
        ELSE IF At(t, j) = "]" THEN Parsed(Append(acc, s.val), j + 1)
        ELSE Fail

\* A field value: null is read as None, a string as a string, an array as
\* a list.
ParseValue(t, i0) ==
    LET i == SkipWs(t, i0)
    IN  IF <<At(t, i), At(t, i + 1), At(t, i + 2), At(t, i + 3)>> = <<"n", "u", "l", "l">>
        THEN Parsed(NoneValue, i + 4)
        ELSE IF At(t, i) = "\""
        THEN LET s == ParseString(t, i)
             IN  IF s.ok THEN Parsed(StrValue(s.val), s.pos) ELSE Fail
        ELSE IF At(t, i) = "["
        THEN LET j == SkipWs(t, i + 1)
                 l == ParseStringItems(t, j, <<>>)
             IN  IF At(t, j) = "]" THEN Parsed(ListValue(<<>>), j + 1)
                 ELSE IF l.ok THEN Parsed(ListValue(l.val), l.pos)
                 ELSE Fail
        ELSE Fail

\* The members of an object, from the first one to the closing brace.
RECURSIVE ParseMembers(_, _, _)
ParseMembers(t, i, acc) ==
    LET key   == ParseString(t, SkipWs(t, i))
        colon == SkipWs(t, key.pos)
        v     == ParseValue(t, colon + 1)
        j     == SkipWs(t, v.pos)
        read  == (key.val[1] :> v.val) @@ acc
    IN  IF ~key.ok \/ Len(key.val) # 1 \/ At(t, colon) # ":" THEN Fail
        ELSE IF ~v.ok THEN Fail
        ELSE IF At(t, j) = "," THEN ParseMembers(t, j + 1, read)
        ELSE IF At(t, j) = "}" THEN Parsed(read, j + 1)
        ELSE Fail

ParseObject(t, i0) ==
    LET i == SkipWs(t, i0)
        j == SkipWs(t, i + 1)
    IN  IF At(t, i) # "{" THEN Fail
        ELSE IF At(t, j) = "}" THEN Parsed(<<>>, j + 1)
        ELSE ParseMembers(t, j, <<>>)

\* The objects of an array, from the first one to the closing bracket.
RECURSIVE ParseObjects(_, _, _)
ParseObjects(t, i, acc) ==
    LET o == ParseObject(t, i)
        j == SkipWs(t, o.pos)
    IN  IF ~o.ok THEN Fail
        ELSE IF At(t, j) = "," THEN ParseObjects(t, j + 1, Append(acc, o.val))
        ELSE IF At(t, j) = "]" THEN Parsed(Append(acc, o.val), j + 1)
        ELSE Fail

\* json.load of a file that holds an array of objects: the list of dicts,
\* or an error.
JsonLoad(t) ==
    LET i == SkipWs(t, 1)
        j == SkipWs(t, i + 1)
        l == IF At(t, j) = "]" THEN Parsed(<<>>, j + 1) ELSE ParseObjects(t, j, <<>>)
    IN  IF At(t, i) # "[" \/ ~l.ok THEN Fail
        ELSE IF At(t, SkipWs(t, l.pos)) # "EOF" THEN Fail
        ELSE l

\* The dicts of a list of the pipeline, as they are now.
Records(list) == [k \in 1 .. Len(list) |-> heap[list[k]]]

\* C13: whatever list of records save_to_json writes (self.results, or the
\* list given), with None, strings and lists of strings as field values,
\* reading the written file back as JSON succeeds and gives the same
\* sequence of records: as many, in the same order, each with the same
\* fields and the same value for every field (None for null, a list for an
\* array, every string character by character).
C13_JsonRoundTrip ==
    [][\A fn \in Filenames, arg \in DataArgs :
          SaveToJson(fn, arg) =>
              /\ files'[fn].kind = "json"
              /\ JsonLoad(files'[fn].text).ok
              /\ JsonLoad(files'[fn].text).val = Records(Data(arg))]_vars

\* C13's case: a file holds two records, one whose title is None and one
\* whose title is a list of two strings, one of them with a bracket, a
\* comma and a quote; the file reads back as the records are.
C13_Witness ==
    /\ files["out"].kind = "json"
    /\ Len(self_results) >= 2
    /\ JsonLoad(files["out"].text).val = Records(self_results)
    /\ heap[self_results[1]]["title"] = NoneValue
    /\ heap[self_results[2]]["title"].kind = "list"
    /\ Len(heap[self_results[2]]["title"].list) = 2

(***************************************************************************)
(* Properties of GroceryShop                                               *)
(***************************************************************************)

\* The total quantity of a product over the lines of an item list.
RECURSIVE QuantityOf(_, _)
QuantityOf(id, items) ==
    IF items = <<>> THEN 0
    ELSE (IF Head(items)[1] = id THEN Head(items)[2] ELSE 0)
         + QuantityOf(id, Tail(items))

\* The sum of price times quantity over the lines of an item list, at the
\* prices the products have in prods.
RECURSIVE TotalOf(_, _)
TotalOf(items, prods) ==
    IF items = <<>> THEN 0
    ELSE prods[Head(items)[1]].price * Head(items)[2] + TotalOf(Tail(items), prods)

\* C15: process_sale is all-or-nothing. A call that raises ValueError
\* leaves the stock of every product as it was before the call and appends
\* no sale record; a call that returns has decreased the stock of every
\* product by the total quantity sold of it over all the lines of the list
\* (the same product may be on several lines) and has appended exactly one
\* sale record, whose total is the sum of price times quantity over the
\* lines.
C15_SaleAllOrNothing ==
    [][\A items \in ItemLists :
          ProcessSale(items) =>
              IF shop_result' = "raised"
              THEN products' = products /\ sales_history' = sales_history
              ELSE /\ DOMAIN products' = DOMAIN products
                   /\ \A id \in DOMAIN products :
                         products'[id].stock =
                            products[id].stock - QuantityOf(id, items)
                   /\ Len(sales_history') = Len(sales_history) + 1
                   /\ SubSeq(sales_history', 1, Len(sales_history)) = sales_history
                   /\ sales_history'[Len(sales_history')].total =
                         TotalOf(items, products)]_vars

\* C16: with products added with a stock >= 0, stocks updated to values >=
\* 0 and sales of quantities >= 1, the stock of every product is >= 0 after
\* every call, whether it returned or raised; and process_sale accepts a
\* line only when the stock its product has when the line is reached (the
\* stock before the call less what the earlier lines of the call took) is
\* at least the quantity of the line, so that no accepted line leaves a
\* negative stock.
C16_StockNeverNegative ==
    /\ \A id \in DOMAIN products : products[id].stock >= 0
    /\ \A k \in 1 .. Len(accepted) :
          /\ accepted[k].quantity >= 1
          /\ accepted[k].stock >= accepted[k].quantity
          /\ accepted[k].stock - accepted[k].quantity >= 0

\* C16's case: a sale of two lines has returned and has sold a product
\* out.
C16_Witness ==
    /\ shop_result = "returned"
    /\ sales_history # <<>>
    /\ Len(sales_history[Len(sales_history)].items) = 2
    /\ \E id \in DOMAIN products : products[id].stock = 0

====
